---------------------------- MODULE Spec2Model ----------------------------
(***************************************************************************)
(* A model of image_generation_app.py, a Streamlit script.  Every user     *)
(* interaction re-runs the script top to bottom; only st.session_state and *)
(* the widget values survive a run.  Strings are sequences of one-letter   *)
(* strings so that split/strip/join can be computed as Python computes     *)
(* them.  A bitmap is a record [mode, size, data, layers]: data are the    *)
(* pixels it was loaded with and layers are the drawing operations applied *)
(* on top of them since, in order.                                         *)
(***************************************************************************)
EXTENDS Integers, Sequences, FiniteSets, TLC

\* Python's None, for a bitmap, a string, PNG bytes and a message
NoImage == [mode |-> "none"]
NoText == <<"None">>
NoBytes == [png |-> NoImage]
NoMessage == <<"none">>

(***************************************************************************)
(* Bounds of the model.                                                    *)
(***************************************************************************)
MaxInputLen == 5
MaxDim == 15
MaxPixels == 2
MaxTextLen == 2
MaxRows == 3
MaxTrimPixels == 9
MaxSaved == 1

(***************************************************************************)
(* Sidebar configuration: the widgets' default values.                     *)
(***************************************************************************)
overlay_x == 400
overlay_y == 1060
overlay_max_w == 225
overlay_max_h == 175
text_x == 650
text_y == 1075

(***************************************************************************)
(* Python string helpers.                                                  *)
(***************************************************************************)
Whitespace == {" ", "\n"}

BatchAlphabet == {"a", "|", " ", "\n"}

Strings(alphabet, n) == UNION {[1..k -> alphabet] : k \in 0..n}

RECURSIVE LStrip(_)
LStrip(s) ==
    IF s # <<>> /\ Head(s) \in Whitespace THEN LStrip(Tail(s)) ELSE s

RECURSIVE RStrip(_)
RStrip(s) ==
    IF s # <<>> /\ s[Len(s)] \in Whitespace
    THEN RStrip(SubSeq(s, 1, Len(s) - 1))
    ELSE s

\* str.strip()
Strip(s) == RStrip(LStrip(s))

\* str.split(sep) for a one-character separator: always at least one piece.
RECURSIVE Split(_, _)
Split(s, sep) ==
    IF \E i \in 1..Len(s) : s[i] = sep
    THEN LET i == CHOOSE j \in 1..Len(s) :
                     s[j] = sep /\ \A k \in 1..(j - 1) : s[k] # sep
         IN  <<SubSeq(s, 1, i - 1)>> \o Split(SubSeq(s, i + 1, Len(s)), sep)
    ELSE <<s>>

\* sep.join(parts)
RECURSIVE Join(_, _)
Join(parts, sep) ==
    IF parts = <<>> THEN <<>>
    ELSE IF Len(parts) = 1 THEN parts[1]
    ELSE parts[1] \o sep \o Join(Tail(parts), sep)

\* [x.strip() for x in s]
StripAll(s) == [i \in 1..Len(s) |-> Strip(s[i])]

\* [x for x in s if x]  (a string is truthy when it is not empty)
RECURSIVE NonEmptyOnly(_)
NonEmptyOnly(s) ==
    IF s = <<>> THEN <<>>
    ELSE IF Head(s) # <<>> THEN <<Head(s)>> \o NonEmptyOnly(Tail(s))
    ELSE NonEmptyOnly(Tail(s))

(***************************************************************************)
(* Python dicts keep insertion order: a dict is a sequence of <<key,       *)
(* value>> pairs with distinct keys.                                       *)
(***************************************************************************)
DictKeys(d) == {d[i][1] : i \in 1..Len(d)}

DictGet(d, k) == d[CHOOSE i \in 1..Len(d) : d[i][1] = k][2]

\* d[k] = v
DictSet(d, k, v) ==
    IF k \in DictKeys(d)
    THEN [i \in 1..Len(d) |-> IF d[i][1] = k THEN <<k, v>> ELSE d[i]]
    ELSE Append(d, <<k, v>>)

(***************************************************************************)
(* Bitmaps.                                                                *)
(***************************************************************************)
Bitmap(mode, size, data) ==
    [mode |-> mode, size |-> size, data |-> data, layers |-> <<>>]

\* Image.convert("RGBA"): an RGB pixel gets alpha 255.
ConvertRGBA(img) ==
    IF img.mode = "RGBA" THEN img
    ELSE [img EXCEPT !.mode = "RGBA",
                     !.data = [i \in 1..Len(img.data) |->
                                  <<img.data[i][1], img.data[i][2],
                                    img.data[i][3], 255>>]]

\* img.save(buf, format='PNG'); buf.getvalue()
PngBytes(img) == [png |-> img]

(***************************************************************************)
(* fit_into.  max_w / w and w * scale are IEEE-754 double operations and   *)
(* int() truncates.  The product a * (b / c) is the exact a*b/c except     *)
(* when rounding leaves it just below an integer it should have reached    *)
(* (11 * (15 / 11) = 14.999999999999998): RoundsBelow lists every such     *)
(* triple with operands up to 17; the other sizes used in this module      *)
(* (1 or 2 pixels into 225 x 175 or 900 x 700) are computed exactly.       *)
(***************************************************************************)
RoundsBelow == {<<11, 15, 11>>, <<13, 15, 13>>}

\* int(a * (b / c))
ScaleTrunc(a, b, c) ==
    IF <<a, b, c>> \in RoundsBelow THEN (a * b) \div c - 1 ELSE (a * b) \div c

\* as FitInto, but with the larger of the two scale factors
FitInto_LargerScale(size, max_w, max_h) ==
    LET w == size[1]
        h == size[2]
        byWidth == max_w * h >= max_h * w
        num == IF byWidth THEN max_w ELSE max_h
        den == IF byWidth THEN w ELSE h
    IN  <<ScaleTrunc(w, num, den), ScaleTrunc(h, num, den)>>

FitInto(size, max_w, max_h) ==
    LET w == size[1]
        h == size[2]
        \* scale = min(max_w / w, max_h / h), kept as a fraction
        byWidth == max_w * h <= max_h * w
        num == IF byWidth THEN max_w ELSE max_h
        den == IF byWidth THEN w ELSE h
    IN  <<ScaleTrunc(w, num, den), ScaleTrunc(h, num, den)>>

(***************************************************************************)
(* make_color_transparent.  diff is the square root of an integer and the  *)
(* threshold an integer, so diff < threshold exactly when the threshold is *)
(* positive and the squared distance is below its square.                  *)
(***************************************************************************)
\* sum((item[i] - target_color[i])**2 for i in range(3))
SquaredDistance(item, target_color) ==
    (item[1] - target_color[1]) * (item[1] - target_color[1])
  + (item[2] - target_color[2]) * (item[2] - target_color[2])
  + (item[3] - target_color[3]) * (item[3] - target_color[3])

\* as WithinThreshold, but diff <= threshold
WithinThreshold_Inclusive(item, target_color, threshold) ==
    threshold >= 0 /\ SquaredDistance(item, target_color) <= threshold * threshold

\* diff < threshold
WithinThreshold(item, target_color, threshold) ==
    threshold > 0 /\ SquaredDistance(item, target_color) < threshold * threshold

\* as MakeColorTransparent, but comparing the squared distance itself with
\* the threshold (the **0.5 left out)
MakeColorTransparent_NoRoot(image, target_color, threshold) ==
    LET rgba == ConvertRGBA(image)
    IN  [rgba EXCEPT !.data =
            [i \in 1..Len(rgba.data) |->
                IF SquaredDistance(rgba.data[i], target_color) < threshold
                THEN <<rgba.data[i][1], rgba.data[i][2], rgba.data[i][3], 0>>
                ELSE rgba.data[i]]]

MakeColorTransparent(image, target_color, threshold) ==
    LET rgba == ConvertRGBA(image)
    IN  [rgba EXCEPT !.data =
            [i \in 1..Len(rgba.data) |->
                IF WithinThreshold(rgba.data[i], target_color, threshold)
                THEN <<rgba.data[i][1], rgba.data[i][2], rgba.data[i][3], 0>>
                ELSE rgba.data[i]]]

(***************************************************************************)
(* generate_image.  The result is the canvas together with the template    *)
(* object as the call leaves it.                                           *)
(***************************************************************************)
\* as GenerateImage, but drawing on the template itself (no template.copy())
GenerateImage_InPlace(tpl, ovl, text) ==
    LET canvas1 ==
            IF ovl # NoImage
            THEN [tpl EXCEPT !.layers = Append(@,
                     [kind |-> "overlay", image |-> ovl,
                      size |-> FitInto(ovl.size, overlay_max_w, overlay_max_h),
                      at |-> <<overlay_x, overlay_y>>])]
            ELSE tpl
        canvas2 ==
            IF text # <<>>
            THEN [canvas1 EXCEPT !.layers = Append(@,
                     [kind |-> "text", text |-> text, at |-> <<text_x, text_y>>])]
            ELSE canvas1
    IN  [canvas |-> canvas2, template |-> canvas2]

GenerateImage(tpl, ovl, text) ==
    LET canvas0 == tpl   \* template.copy()
        canvas1 ==
            IF ovl # NoImage
            THEN [canvas0 EXCEPT !.layers = Append(@,
                     [kind |-> "overlay", image |-> ovl,
                      size |-> FitInto(ovl.size, overlay_max_w, overlay_max_h),
                      at |-> <<overlay_x, overlay_y>>])]
            ELSE canvas0
        canvas2 ==
            IF text # <<>>
            THEN [canvas1 EXCEPT !.layers = Append(@,
                     [kind |-> "text", text |-> text, at |-> <<text_x, text_y>>])]
            ELSE canvas1
    IN  [canvas |-> canvas2, template |-> tpl]


(***************************************************************************)
(* State.  The first group is the generator tabs (tab1, tab2): widget      *)
(* values, session state and the locals of the script run in progress.     *)
(***************************************************************************)
VARIABLES
    batch_input,        \* the batch text area (tab2)
    overlay_files,      \* the uploaded overlay files, a dict name -> file
    saved_overlays,     \* st.session_state['saved_overlays']
    template,           \* the template bitmap of the current script run
    pc,                 \* "idle", "loop" (inside the batch loop) or "done"
    lines, idx,         \* the batch loop: its list and the lines consumed
    filename, overlay, custom_text, img,   \* locals of the last iteration
    generated_images,   \* the batch run's dict name -> PNG bytes
    warnings,           \* st.warning calls of the run: the line numbers
    zip_entries,        \* the entries written to the ZIP archive
    message,            \* the st.error / st.success the run ended with
    preview_img,        \* st.session_state['preview_img']
    downloaded          \* the bytes the browser last saved from tab1

genVars == <<batch_input, overlay_files, saved_overlays, template, pc, lines,
             idx, filename, overlay, custom_text, img, generated_images,
             warnings, zip_entries, message, preview_img, downloaded>>

(***************************************************************************)
(* The pure functions are checked on their own: an argument list and the   *)
(* value the call returned.                                                *)
(***************************************************************************)
VARIABLES
    fit_size, fit_box,  \* fit_into: img.size and (max_w, max_h)
    fit_result,         \* the size fit_into asked img.resize for
    mct_img, mct_target, mct_threshold,   \* make_color_transparent
    mct_result

(***************************************************************************)
(* tab4, the county map generator.                                         *)
(***************************************************************************)
VARIABLES
    selected_state,         \* the state selectbox
    shapefile,              \* the county shapefile gpd.read_file is given
    use_template,           \* output mode is "Complete Images"
    cpc,                    \* "idle" or "loop" (inside the county loop)
    state_counties,         \* the rows of the selected state
    cidx,                   \* the rows rendered so far
    county_images,          \* the run's local dict filename -> PNG bytes
    county_exc,             \* what raised the exception the run caught
    county_message,         \* the st.error / st.success the run ended with
    ss_county_images,       \* st.session_state['county_images']
    ss_county_state_name,   \* st.session_state['county_state_name']
    ss_county_mode_saved    \* st.session_state['county_mode_saved']

countyVars == <<selected_state, shapefile, use_template, cpc, state_counties,
                cidx, county_images, county_exc, county_message,
                ss_county_images, ss_county_state_name, ss_county_mode_saved>>

(***************************************************************************)
(* tab3, the background remover.                                           *)
(***************************************************************************)
VARIABLES
    bg_overlay_choice,        \* the selectbox "bg_removal_select"
    processed_overlay,        \* st.session_state['processed_overlay']
    processed_overlay_name    \* st.session_state['processed_overlay_name']

remVars == <<bg_overlay_choice, processed_overlay, processed_overlay_name>>

VARIABLES
    trim_img,           \* trim-transparent-border: its argument,
    trim_once,          \* the result of trimming it
    trim_twice          \* and of trimming that result

trimVars == <<trim_img, trim_once, trim_twice>>

fitVars == <<fit_size, fit_box, fit_result>>

mctVars == <<mct_img, mct_target, mct_threshold, mct_result>>

vars == <<genVars, fitVars, mctVars, countyVars, remVars, trimVars>>

notGenVars == <<fitVars, mctVars, countyVars, remVars, trimVars>>

notFitVars == <<genVars, mctVars, countyVars, remVars, trimVars>>

notMctVars == <<genVars, fitVars, countyVars, remVars, trimVars>>

notCountyVars == <<genVars, fitVars, mctVars, remVars, trimVars>>

notTrimVars == <<genVars, fitVars, mctVars, countyVars, remVars>>

\* what tab3 leaves alone outside tab1 and tab2
notGenRemVars == <<fitVars, mctVars, countyVars, trimVars>>

(***************************************************************************)
(* The uploaded files.                                                     *)
(***************************************************************************)
White == <<255, 255, 255>>
Black == <<0, 0, 0>>

\* the template upload: a one-pixel RGB image
TemplateFile == Bitmap("RGB", <<1, 1>>, <<White>>)

OverlayFileA == Bitmap("RGB", <<2, 1>>, <<White, Black>>)
OverlayFileAA == Bitmap("RGBA", <<1, 2>>, <<<<0, 0, 0, 255>>, <<255, 255, 255, 0>>>>)

\* the overlay uploads a session may have
OverlayUploads ==
    { <<>>,
      << <<(<<"a">>), OverlayFileA>> >>,
      << <<(<<"a">>), OverlayFileA>>, <<(<<"a", "a">>), OverlayFileAA>> >> }

Png == <<".png">>

\* template = Image.open(template_file).convert("RGBA")
LoadTemplate == ConvertRGBA(TemplateFile)

\* overlays_dict as every script run rebuilds it (lines 97-107)
RECURSIVE DictUpdate(_, _)
DictUpdate(d, e) ==
    IF e = <<>> THEN d
    ELSE DictUpdate(DictSet(d, e[1][1], e[1][2]), Tail(e))

OverlaysDict(files, saved) ==
    DictUpdate([i \in 1..Len(files) |-> <<files[i][1], ConvertRGBA(files[i][2])>>],
               saved)

overlays_dict == OverlaysDict(overlay_files, saved_overlays)

(***************************************************************************)
(* tab2: the batch generator.                                              *)
(***************************************************************************)
Idle == pc \in {"idle", "done"}

\* [line.strip() for line in batch_input.split('\n') if line.strip()]
BatchLines(input) == NonEmptyOnly(StripAll(Split(input, "\n")))

\* [p.strip() for p in line.split('|')]
LineParts(line) == StripAll(Split(line, "|"))

\* lines 532-540: the overlay reference and the text of a line
ParseOverlay(parts, dict) ==
    IF parts[Len(parts)] \in DictKeys(dict)
    THEN DictGet(dict, parts[Len(parts)])
    ELSE NoImage

\* as ParseText, but the overlay reference stays in the text (parts[1:])
ParseText_KeepsLastField(parts, dict) ==
    Join(SubSeq(parts, 2, Len(parts)), <<"\n">>)

ParseText(parts, dict) ==
    IF parts[Len(parts)] \in DictKeys(dict)
    THEN Join(SubSeq(parts, 2, Len(parts) - 1), <<"\n">>)
    ELSE Join(SubSeq(parts, 2, Len(parts)), <<"\n">>)

\* a script run starts without the previous run's locals
FreshLocals ==
    /\ lines' = <<>>
    /\ idx' = 0
    /\ filename' = NoText
    /\ overlay' = NoImage
    /\ custom_text' = NoText
    /\ img' = NoImage
    /\ generated_images' = <<>>
    /\ warnings' = <<>>
    /\ zip_entries' = <<>>

ClickGenerateBatch ==
    /\ Idle
    /\ template' = LoadTemplate
    /\ IF BatchLines(batch_input) = <<>>
       THEN /\ FreshLocals
            /\ message' = <<"error", "Please enter at least one line of data">>
            /\ pc' = "idle"
       ELSE /\ lines' = BatchLines(batch_input)
            /\ idx' = 0
            /\ filename' = NoText
            /\ overlay' = NoImage
            /\ custom_text' = NoText
            /\ img' = NoImage
            /\ generated_images' = <<>>
            /\ warnings' = <<>>
            /\ zip_entries' = <<>>
            /\ message' = NoMessage
            /\ pc' = "loop"
    /\ UNCHANGED <<batch_input, overlay_files, saved_overlays, preview_img,
                   downloaded>>
    /\ UNCHANGED notGenVars

\* as BatchSkipLine, but with break in place of continue
BatchSkipLine_Break ==
    /\ pc = "loop"
    /\ idx < Len(lines)
    /\ Len(LineParts(lines[idx + 1])) < 2
    /\ warnings' = Append(warnings, idx + 1)
    /\ idx' = Len(lines)
    /\ UNCHANGED <<batch_input, overlay_files, saved_overlays, template, pc,
                   lines, filename, overlay, custom_text, img,
                   generated_images, zip_entries, message, preview_img,
                   downloaded>>
    /\ UNCHANGED notGenVars

\* len(parts) < 2: st.warning, continue
BatchSkipLine ==
    /\ pc = "loop"
    /\ idx < Len(lines)
    /\ Len(LineParts(lines[idx + 1])) < 2
    /\ warnings' = Append(warnings, idx + 1)
    /\ idx' = idx + 1
    /\ UNCHANGED <<batch_input, overlay_files, saved_overlays, template, pc,
                   lines, filename, overlay, custom_text, img,
                   generated_images, zip_entries, message, preview_img,
                   downloaded>>
    /\ UNCHANGED notGenVars

BatchGenerateLine ==
    /\ pc = "loop"
    /\ idx < Len(lines)
    /\ LET parts == LineParts(lines[idx + 1])
       IN  /\ Len(parts) >= 2
           /\ LET ovl == ParseOverlay(parts, overlays_dict)
                  text == ParseText(parts, overlays_dict)
                  res == GenerateImage(template, ovl, text)
              IN  /\ filename' = parts[1]
                  /\ overlay' = ovl
                  /\ custom_text' = text
                  /\ img' = res.canvas
                  /\ template' = res.template
                  /\ generated_images' =
                         DictSet(generated_images, parts[1] \o Png,
                                 PngBytes(res.canvas))
    /\ idx' = idx + 1
    /\ UNCHANGED <<batch_input, overlay_files, saved_overlays, pc, lines,
                   warnings, zip_entries, message, preview_img, downloaded>>
    /\ UNCHANGED notGenVars

\* after the loop: st.success and the ZIP archive
BatchFinish ==
    /\ pc = "loop"
    /\ idx = Len(lines)
    /\ message' = <<"success", Len(generated_images)>>
    /\ zip_entries' = generated_images
    /\ pc' = "done"
    /\ UNCHANGED <<batch_input, overlay_files, saved_overlays, template, lines,
                   idx, filename, overlay, custom_text, img, generated_images,
                   warnings, preview_img, downloaded>>
    /\ UNCHANGED notGenVars

(***************************************************************************)
(* tab1: the single image generator.                                       *)
(***************************************************************************)
\* the overlay selectbox: ["None"] + list(overlays_dict.keys())
NoneChoice == <<"N", "o", "n", "e">>

OverlayChoices == {NoneChoice} \cup DictKeys(overlays_dict)

\* lines 468-473
SelectedOverlay(choice) ==
    IF DictKeys(overlays_dict) # {} /\ choice # NoneChoice
    THEN DictGet(overlays_dict, choice)
    ELSE NoImage

GeneratePreview(text, choice) ==
    /\ Idle
    /\ LET res == GenerateImage(LoadTemplate, SelectedOverlay(choice), text)
       IN  /\ preview_img' = res.canvas
           /\ template' = res.template
    /\ FreshLocals
    /\ message' = NoMessage
    /\ pc' = "idle"
    /\ UNCHANGED <<batch_input, overlay_files, saved_overlays, downloaded>>
    /\ UNCHANGED notGenVars

\* as DownloadImage, but dropping the preview from session state
DownloadImage_Discards ==
    /\ Idle
    /\ preview_img # NoImage
    /\ downloaded' = PngBytes(preview_img)
    /\ preview_img' = NoImage
    /\ template' = LoadTemplate
    /\ FreshLocals
    /\ message' = NoMessage
    /\ pc' = "idle"
    /\ UNCHANGED <<batch_input, overlay_files, saved_overlays>>
    /\ UNCHANGED notGenVars

\* the download button of tab1 hands over the PNG of the stored preview;
\* the click re-runs the script
DownloadImage ==
    /\ Idle
    /\ preview_img # NoImage
    /\ downloaded' = PngBytes(preview_img)
    /\ template' = LoadTemplate
    /\ FreshLocals
    /\ message' = NoMessage
    /\ pc' = "idle"
    /\ UNCHANGED <<batch_input, overlay_files, saved_overlays, preview_img>>
    /\ UNCHANGED notGenVars

\* any other widget interaction: a script run in which no button is pressed
Rerun ==
    /\ Idle
    /\ template' = LoadTemplate
    /\ FreshLocals
    /\ message' = NoMessage
    /\ pc' = "idle"
    /\ UNCHANGED <<batch_input, overlay_files, saved_overlays, preview_img,
                   downloaded>>
    /\ UNCHANGED notGenVars

(***************************************************************************)
(* Spec: the generator tabs.  The batch text and the uploads are whatever  *)
(* the user entered before the first click.                                *)
(***************************************************************************)
SingleTexts == {<<"a">>}

GenInit ==
    /\ saved_overlays = <<>>
    /\ template = LoadTemplate
    /\ pc = "idle"
    /\ lines = <<>>
    /\ idx = 0
    /\ filename = NoText
    /\ overlay = NoImage
    /\ custom_text = NoText
    /\ img = NoImage
    /\ generated_images = <<>>
    /\ warnings = <<>>
    /\ zip_entries = <<>>
    /\ message = NoMessage
    /\ preview_img = NoImage
    /\ downloaded = NoBytes

\* the state of a part of the program a specification leaves alone
NoSize == <<-1, -1>>

FitParked ==
    /\ fit_size = <<1, 1>>
    /\ fit_box = <<1, 1>>
    /\ fit_result = NoSize

MctParked ==
    /\ mct_img = NoImage
    /\ mct_target = <<0, 0, 0>>
    /\ mct_threshold = 0
    /\ mct_result = NoImage

NoFile == [kind |-> "none", rows |-> <<>>]

MapsOnly == "Maps Only"

CompleteImages == "Complete Images (with template & text)"

\* tab4 before its first interaction
CountyInit ==
    /\ shapefile = NoFile
    /\ cpc = "idle"
    /\ state_counties = <<>>
    /\ cidx = 0
    /\ county_images = <<>>
    /\ county_exc = "none"
    /\ county_message = NoMessage
    /\ ss_county_images = <<>>
    /\ ss_county_state_name = "none"
    /\ ss_county_mode_saved = "none"

CountyParked ==
    /\ selected_state = "AL"
    /\ use_template = FALSE
    /\ CountyInit

\* tab3 before Remove Background was ever clicked
RemParked ==
    /\ bg_overlay_choice = NoText
    /\ processed_overlay = NoImage
    /\ processed_overlay_name = NoText

TrimParked ==
    /\ trim_img = NoImage
    /\ trim_once = NoImage
    /\ trim_twice = NoImage

GenParked ==
    /\ batch_input = <<>>
    /\ overlay_files = <<>>
    /\ GenInit

Init ==
    /\ batch_input \in Strings(BatchAlphabet, MaxInputLen)
    /\ overlay_files \in OverlayUploads
    /\ GenInit
    /\ FitParked
    /\ MctParked
    /\ CountyParked
    /\ RemParked
    /\ TrimParked

Next ==
    \/ ClickGenerateBatch
    \/ BatchSkipLine
    \/ BatchGenerateLine
    \/ BatchFinish
    \/ \E text \in SingleTexts, choice \in OverlayChoices :
           GeneratePreview(text, choice)

Spec == Init /\ [][Next]_vars


(***************************************************************************)
(* Properties of the batch generator.                                      *)
(***************************************************************************)
ValidLine(line) == Len(LineParts(line)) >= 2

EntryName(line) == LineParts(line)[1] \o Png

\* the overlay images and the texts drawn on a bitmap, in drawing order
RECURSIVE LayersOfKind(_, _)
LayersOfKind(layers, kind) ==
    IF layers = <<>> THEN <<>>
    ELSE IF Head(layers).kind = kind
         THEN <<Head(layers)>> \o LayersOfKind(Tail(layers), kind)
         ELSE LayersOfKind(Tail(layers), kind)

OverlaysDrawn(bitmap) ==
    LET l == LayersOfKind(bitmap.layers, "overlay")
    IN  [i \in 1..Len(l) |-> l[i].image]

TextDrawn(bitmap) ==
    LET l == LayersOfKind(bitmap.layers, "text")
    IN  IF l = <<>> THEN <<>> ELSE l[Len(l)].text

\* C1: when every line of a finished batch run is valid, the archive has
\* one entry per line, and the entry of line i is named '<first field>.png'.
C1_OneEntryPerLine ==
    (pc = "done" /\ \A i \in 1..Len(lines) : ValidLine(lines[i]))
        => /\ Len(zip_entries) = Len(lines)
           /\ \A i \in 1..Len(lines) : zip_entries[i][1] = EntryName(lines[i])

\* C2: for the valid line just processed, a last field naming an overlay of
\* the collection selects that overlay and the drawn text is the fields
\* strictly between the first and the last joined by newlines; otherwise no
\* overlay is composited and the text is every field after the first.
C2_LastFieldSelectsOverlay ==
    (pc \in {"loop", "done"} /\ idx > 0 /\ ValidLine(lines[idx]))
        => LET parts == LineParts(lines[idx])
               n == Len(parts)
           IN  IF parts[n] \in DictKeys(overlays_dict)
               THEN /\ OverlaysDrawn(img) = <<DictGet(overlays_dict, parts[n])>>
                    /\ TextDrawn(img) =
                           Join([i \in 1..(n - 2) |-> parts[i + 1]], <<"\n">>)
               ELSE /\ OverlaysDrawn(img) = <<>>
                    /\ TextDrawn(img) =
                           Join([i \in 1..(n - 1) |-> parts[i + 1]], <<"\n">>)

C2_Witness ==
    /\ pc = "loop"
    /\ idx > 0
    /\ ValidLine(lines[idx])
    /\ OverlaysDrawn(img) # <<>>
    /\ TextDrawn(img) # <<>>

\* the numbers of the malformed lines among the first n lines, in order
RECURSIVE MalformedUpTo(_, _)
MalformedUpTo(ls, n) ==
    IF n = 0 THEN <<>>
    ELSE IF ValidLine(ls[n]) THEN MalformedUpTo(ls, n - 1)
    ELSE Append(MalformedUpTo(ls, n - 1), n)

\* C3: throughout a batch run the warnings are exactly the malformed lines
\* consumed so far, the images are exactly those of the valid lines consumed
\* so far, and the run ends only after the last line, with those images in
\* the archive.
C3_MalformedLinesSkipped ==
    pc \in {"loop", "done"}
        => /\ warnings = MalformedUpTo(lines, idx)
           /\ DictKeys(generated_images) =
                  {EntryName(lines[i]) :
                       i \in {j \in 1..idx : ValidLine(lines[j])}}
           /\ pc = "done" => (idx = Len(lines) /\ zip_entries = generated_images)

C3_Witness ==
    /\ pc = "done"
    /\ \E i, j, k \in 1..Len(lines) :
          /\ i < j /\ j < k
          /\ ValidLine(lines[i]) /\ ~ValidLine(lines[j]) /\ ValidLine(lines[k])
    /\ warnings # <<>>
    /\ zip_entries # <<>>

\* C7: the template bitmap always has the pixels it was loaded with, and an
\* image is the freshly loaded template with only its own overlay and text.
C7_TemplateUntouched ==
    /\ template = LoadTemplate
    /\ img # NoImage
           => img = GenerateImage(LoadTemplate, overlay, custom_text).canvas
    /\ preview_img # NoImage
           => /\ preview_img.data = LoadTemplate.data
              /\ Len(LayersOfKind(preview_img.layers, "overlay")) <= 1
              /\ Len(LayersOfKind(preview_img.layers, "text")) <= 1

C7_Witness ==
    /\ pc = "done"
    /\ preview_img # NoImage
    /\ idx >= 2
    /\ ValidLine(lines[1])
    /\ ValidLine(lines[2])
    /\ img.layers # <<>>
    /\ zip_entries[1][2].png.layers # <<>>


(***************************************************************************)
(* SpecFit: fit_into on every image size and box up to MaxDim.             *)
(***************************************************************************)
Sizes == (1..MaxDim) \X (1..MaxDim)

InitFit ==
    /\ fit_size \in Sizes
    /\ fit_box \in Sizes
    /\ fit_result = NoSize
    /\ GenParked
    /\ MctParked
    /\ CountyParked
    /\ RemParked
    /\ TrimParked

CallFitInto ==
    /\ fit_result = NoSize
    /\ fit_result' = FitInto(fit_size, fit_box[1], fit_box[2])
    /\ UNCHANGED <<fit_size, fit_box>>
    /\ UNCHANGED notFitVars

NextFit == CallFitInto

SpecFit == InitFit /\ [][NextFit]_vars

\* r is x * n / d cut to an integer, give or take the last pixel
WithinOnePixel(r, x, n, d) == r * d <= x * n /\ x * n <= (r + 1) * d

\* C4: the result fits the box, and both of its dimensions are the image's
\* scaled by the smaller of max_w / w and max_h / h, within one pixel.
C4_FitsBoxKeepsRatio ==
    fit_result # NoSize
        => LET w == fit_size[1]
               h == fit_size[2]
               max_w == fit_box[1]
               max_h == fit_box[2]
           IN  /\ fit_result[1] <= max_w
               /\ fit_result[2] <= max_h
               /\ \E f \in {<<max_w, w>>, <<max_h, h>>} :
                     /\ f[1] * w <= max_w * f[2]
                     /\ f[1] * h <= max_h * f[2]
                     /\ WithinOnePixel(fit_result[1], w, f[1], f[2])
                     /\ WithinOnePixel(fit_result[2], h, f[1], f[2])

\* a scaled-down image whose height had to be cut to an integer
C4_Witness ==
    /\ fit_result # NoSize
    /\ fit_result[1] = fit_box[1]
    /\ fit_result[1] < fit_size[1]
    /\ fit_result[2] * fit_size[1] < fit_size[2] * fit_box[1]
    /\ fit_result[2] > 0

(***************************************************************************)
(* SpecColor: make_color_transparent on every image of up to MaxPixels     *)
(* pixels with channels 0 or 255.                                          *)
(***************************************************************************)
ChannelValues == {0, 255}

RGBPixels == ChannelValues \X ChannelValues \X ChannelValues

RGBAPixels == ChannelValues \X ChannelValues \X ChannelValues \X ChannelValues

\* the slider's ends and default, and a value above every RGB distance
Thresholds == {0, 50, 255, 442}

Images ==
    UNION {{Bitmap("RGBA", <<n, 1>>, d) : d \in [1..n -> RGBAPixels]}
           \cup {Bitmap("RGB", <<n, 1>>, d) : d \in [1..n -> RGBPixels]}
             : n \in 1..MaxPixels}

InitColor ==
    /\ mct_img \in Images
    /\ mct_target \in RGBPixels
    /\ mct_threshold \in Thresholds
    /\ mct_result = NoImage
    /\ GenParked
    /\ FitParked
    /\ CountyParked
    /\ RemParked
    /\ TrimParked

CallMakeColorTransparent ==
    /\ mct_result = NoImage
    /\ mct_result' = MakeColorTransparent(mct_img, mct_target, mct_threshold)
    /\ UNCHANGED <<mct_img, mct_target, mct_threshold>>
    /\ UNCHANGED notMctVars

NextColor == CallMakeColorTransparent

SpecColor == InitColor /\ [][NextColor]_vars

\* C5: with threshold 0 the result of an RGBA image has the input's pixels,
\* all four channels, also where the colour is the target colour itself.
C5_ThresholdZeroUnchanged ==
    (mct_result # NoImage /\ mct_img.mode = "RGBA" /\ mct_threshold = 0)
        => /\ mct_result.size = mct_img.size
           /\ \A i \in 1..Len(mct_img.data) :
                  mct_result.data[i] = mct_img.data[i]

C5_Witness ==
    /\ mct_result # NoImage
    /\ mct_img.mode = "RGBA"
    /\ mct_threshold = 0
    /\ \E i \in 1..Len(mct_img.data) :
          /\ mct_img.data[i][4] = 255
          /\ <<mct_img.data[i][1], mct_img.data[i][2], mct_img.data[i][3]>>
                 = mct_target

\* C6: with a threshold above the distance between any two 8-bit colours
\* every pixel of the result has alpha 0.
C6_LargeThresholdAllTransparent ==
    (mct_result # NoImage /\ mct_img.mode = "RGBA"
        /\ mct_threshold * mct_threshold > 3 * 255 * 255)
        => /\ Len(mct_result.data) = Len(mct_img.data)
           /\ \A i \in 1..Len(mct_result.data) : mct_result.data[i][4] = 0

C6_Witness ==
    /\ mct_result # NoImage
    /\ mct_img.mode = "RGBA"
    /\ mct_threshold * mct_threshold > 3 * 255 * 255
    /\ \E i \in 1..Len(mct_img.data) :
          /\ mct_img.data[i][4] = 255
          /\ SquaredDistance(mct_img.data[i], mct_target) = 3 * 255 * 255


(***************************************************************************)
(* SpecSession: the single image generator over a session of Generate      *)
(* Preview, Download Image and other re-runs.                              *)
(***************************************************************************)
TextAlphabet == {"a", "\n"}

InitSession ==
    /\ batch_input = <<>>
    /\ overlay_files \in OverlayUploads
    /\ GenInit
    /\ FitParked
    /\ MctParked
    /\ CountyParked
    /\ RemParked
    /\ TrimParked

NextSession ==
    \/ \E text \in Strings(TextAlphabet, MaxTextLen), choice \in OverlayChoices :
           GeneratePreview(text, choice)
    \/ DownloadImage
    \/ Rerun

SpecSession == InitSession /\ [][NextSession]_vars

\* C9 as stated: a download leaves no preview image in session state.
C9_DiscardedAfterDownload ==
    [][downloaded' # downloaded => preview_img' = NoImage]_vars

\* C9 as amended: a stored preview is never removed from session state, and
\* a download hands over the stored preview and leaves it as it is.
C9_KeptAfterDownload ==
    [][/\ preview_img # NoImage => preview_img' # NoImage
       /\ downloaded' # downloaded
              => /\ preview_img' = preview_img
                 /\ downloaded' = PngBytes(preview_img)]_vars

C9_Witness ==
    /\ preview_img # NoImage
    /\ preview_img.layers # <<>>
    /\ downloaded = PngBytes(preview_img)


(***************************************************************************)
(* tab4: the county map generator.                                         *)
(***************************************************************************)
HighlightColor == "#FFA500"

BaseColor == "#354eb0"

\* rows of a county shapefile: Richmond County and the city of Richmond
\* share the NAME "Richmond" in the Census Bureau's file
CountyRowPool ==
    { [STUSPS |-> "VA", STATE_NAME |-> "Virginia", GEOID |-> "51159",
       NAME |-> <<"R">>],
      [STUSPS |-> "VA", STATE_NAME |-> "Virginia", GEOID |-> "51760",
       NAME |-> <<"R">>],
      [STUSPS |-> "VA", STATE_NAME |-> "Virginia", GEOID |-> "51099",
       NAME |-> <<"K", " ", "G">>],
      [STUSPS |-> "AK", STATE_NAME |-> "Alaska", GEOID |-> "02180",
       NAME |-> <<"N">>] }

States == {"VA", "AK"}

\* the files a user may upload: a ZIP gpd.read_file cannot read, or a table
\* of up to MaxRows rows with distinct GEOIDs
Shapefiles ==
    {[kind |-> "corrupt", rows |-> <<>>]}
    \cup {[kind |-> "table", rows |-> r] :
            r \in {q \in UNION {[1..n -> CountyRowPool] : n \in 0..MaxRows} :
                      \A i, j \in 1..Len(q) : i # j => q[i] # q[j]}}

\* counties_gdf[counties_gdf['STUSPS'] == selected_state]
RECURSIVE FilterState(_, _)
FilterState(rows, st) ==
    IF rows = <<>> THEN <<>>
    ELSE IF Head(rows).STUSPS = st
         THEN <<Head(rows)>> \o FilterState(Tail(rows), st)
         ELSE FilterState(Tail(rows), st)

AlnumChars == {"R", "K", "G", "N"}

\* "".join(c if c.isalnum() else "_" for c in county_name)
SafeName(name) ==
    [i \in 1..Len(name) |-> IF name[i] \in AlnumChars THEN name[i] ELSE "_"]

\* lines 378-381
CountyFilename(state_name, county_name, templ) ==
    (IF templ THEN <<"verasight_survey_">> ELSE <<>>)
        \o <<state_name, "_">> \o SafeName(county_name) \o Png

\* the pixel size of the figure matplotlib saved
CountyMapSize == <<2, 1>>

\* lines 308-336: the plot of the state with one colour per county
CountyMap(rows, county_fips) ==
    [mode |-> "RGBA", size |-> CountyMapSize, data |-> <<>>,
     layers |-> <<[kind |-> "map",
                   colors |-> [i \in 1..Len(rows) |->
                                  <<rows[i].GEOID,
                                    IF rows[i].GEOID = county_fips
                                    THEN HighlightColor ELSE BaseColor>>]]>>]

Subdivision(st) ==
    IF st = "AK" THEN "borough" ELSE IF st = "LA" THEN "parish" ELSE "county"

\* lines 339-374: the map on the template with the county's text
CompleteImage(tpl, map, st, county_name) ==
    LET box == IF st = "AK"
               THEN <<overlay_max_w * 4, overlay_max_h * 4>>
               ELSE <<overlay_max_w, overlay_max_h>>
    IN  [tpl EXCEPT !.layers = @ \o
            << [kind |-> "overlay", image |-> map,
                size |-> FitInto(map.size, box[1], box[2]),
                at |-> <<overlay_x, overlay_y>>],
               [kind |-> "text",
                text |-> county_name \o <<" ", Subdivision(st), "\n",
                                          "residents needed!">>,
                at |-> <<text_x, text_y>>] >>]

\* a script run starts without the previous run's locals
FreshCountyLocals ==
    /\ state_counties' = <<>>
    /\ cidx' = 0
    /\ county_images' = <<>>
    /\ county_exc' = "none"

SelectState(st) ==
    /\ cpc = "idle"
    /\ selected_state' = st
    /\ FreshCountyLocals
    /\ county_message' = NoMessage
    /\ UNCHANGED <<shapefile, use_template, cpc, ss_county_images,
                   ss_county_state_name, ss_county_mode_saved>>
    /\ UNCHANGED notCountyVars

UploadShapefile(file) ==
    /\ cpc = "idle"
    /\ shapefile' = file
    /\ FreshCountyLocals
    /\ county_message' = NoMessage
    /\ UNCHANGED <<selected_state, use_template, cpc, ss_county_images,
                   ss_county_state_name, ss_county_mode_saved>>
    /\ UNCHANGED notCountyVars

\* as GenerateCountiesReadFails, but with gpd.read_file outside the try
GenerateCountiesReadFails_Uncaught ==
    /\ cpc = "idle"
    /\ shapefile.kind = "corrupt"
    /\ state_counties' = <<>>
    /\ cidx' = 0
    /\ county_images' = <<>>
    /\ county_exc' = "read_file"
    /\ county_message' = <<"exception", "read_file">>
    /\ UNCHANGED <<selected_state, shapefile, use_template, cpc,
                   ss_county_images, ss_county_state_name,
                   ss_county_mode_saved>>
    /\ UNCHANGED notCountyVars

\* Generate County Maps: gpd.read_file raises, the except clause reports it
GenerateCountiesReadFails ==
    /\ cpc = "idle"
    /\ shapefile.kind = "corrupt"
    /\ state_counties' = <<>>
    /\ cidx' = 0
    /\ county_images' = <<>>
    /\ county_exc' = "read_file"
    /\ county_message' = <<"error", "Error processing shapefile", "read_file">>
    /\ UNCHANGED <<selected_state, shapefile, use_template, cpc,
                   ss_county_images, ss_county_state_name,
                   ss_county_mode_saved>>
    /\ UNCHANGED notCountyVars

\* Generate County Maps: the file has no row of the selected state
GenerateCountiesNoneFound ==
    /\ cpc = "idle"
    /\ shapefile.kind = "table"
    /\ FilterState(shapefile.rows, selected_state) = <<>>
    /\ FreshCountyLocals
    /\ county_message' = <<"error", "No counties found", selected_state>>
    /\ UNCHANGED <<selected_state, shapefile, use_template, cpc,
                   ss_county_images, ss_county_state_name,
                   ss_county_mode_saved>>
    /\ UNCHANGED notCountyVars

\* Generate County Maps: the loop over the state's rows begins
GenerateCountiesStart ==
    /\ cpc = "idle"
    /\ shapefile.kind = "table"
    /\ FilterState(shapefile.rows, selected_state) # <<>>
    /\ state_counties' = FilterState(shapefile.rows, selected_state)
    /\ cidx' = 0
    /\ county_images' = <<>>
    /\ county_exc' = "none"
    /\ county_message' = NoMessage
    /\ cpc' = "loop"
    /\ UNCHANGED <<selected_state, shapefile, use_template, ss_county_images,
                   ss_county_state_name, ss_county_mode_saved>>
    /\ UNCHANGED notCountyVars

\* as RenderCounty, but each image goes into the stored results as soon as
\* it is rendered
RenderCounty_StoresEachImage ==
    /\ cpc = "loop"
    /\ cidx < Len(state_counties)
    /\ LET county_row == state_counties[cidx + 1]
           state_name == state_counties[1].STATE_NAME
           map == CountyMap(state_counties, county_row.GEOID)
           image == IF use_template
                    THEN CompleteImage(LoadTemplate, map, selected_state,
                                       county_row.NAME)
                    ELSE map
       IN  county_images' =
               DictSet(county_images,
                       CountyFilename(state_name, county_row.NAME, use_template),
                       PngBytes(image))
    /\ cidx' = cidx + 1
    /\ ss_county_images' = county_images'
    /\ UNCHANGED <<selected_state, shapefile, use_template, cpc, state_counties,
                   county_exc, county_message,
                   ss_county_state_name, ss_county_mode_saved>>
    /\ UNCHANGED notCountyVars

\* one iteration of the loop of lines 303-386
RenderCounty ==
    /\ cpc = "loop"
    /\ cidx < Len(state_counties)
    /\ LET county_row == state_counties[cidx + 1]
           state_name == state_counties[1].STATE_NAME
           map == CountyMap(state_counties, county_row.GEOID)
           image == IF use_template
                    THEN CompleteImage(LoadTemplate, map, selected_state,
                                       county_row.NAME)
                    ELSE map
       IN  county_images' =
               DictSet(county_images,
                       CountyFilename(state_name, county_row.NAME, use_template),
                       PngBytes(image))
    /\ cidx' = cidx + 1
    /\ UNCHANGED <<selected_state, shapefile, use_template, cpc, state_counties,
                   county_exc, county_message, ss_county_images,
                   ss_county_state_name, ss_county_mode_saved>>
    /\ UNCHANGED notCountyVars

\* an iteration raises (plotting, saving, compositing): the except clause of
\* line 393 reports it and the run ends
RenderCountyRaises ==
    /\ cpc = "loop"
    /\ cidx < Len(state_counties)
    /\ county_exc' = "render"
    /\ county_message' = <<"error", "Error processing shapefile", "render">>
    /\ cpc' = "idle"
    /\ UNCHANGED <<selected_state, shapefile, use_template, state_counties,
                   cidx, county_images, ss_county_images,
                   ss_county_state_name, ss_county_mode_saved>>
    /\ UNCHANGED notCountyVars

\* lines 388-391, after the last row
StoreCountyResults ==
    /\ cpc = "loop"
    /\ cidx = Len(state_counties)
    /\ ss_county_images' = county_images
    /\ ss_county_state_name' = state_counties[1].STATE_NAME
    /\ ss_county_mode_saved' = IF use_template THEN CompleteImages ELSE MapsOnly
    /\ county_message' =
           <<"success", Len(county_images), state_counties[1].STATE_NAME>>
    /\ cpc' = "idle"
    /\ UNCHANGED <<selected_state, shapefile, use_template, state_counties,
                   cidx, county_images, county_exc>>
    /\ UNCHANGED notCountyVars

InitCounty ==
    /\ selected_state \in States
    /\ use_template \in BOOLEAN
    /\ CountyInit
    /\ GenParked
    /\ FitParked
    /\ MctParked
    /\ RemParked
    /\ TrimParked

NextCounty ==
    \/ \E st \in States : SelectState(st)
    \/ \E file \in Shapefiles : UploadShapefile(file)
    \/ GenerateCountiesReadFails
    \/ GenerateCountiesNoneFound
    \/ GenerateCountiesStart
    \/ RenderCounty
    \/ RenderCountyRaises
    \/ StoreCountyResults

SpecCounty == InitCounty /\ [][NextCounty]_vars

\* C8: a run in which reading the shapefile raised ends with the error
\* message of the except clause, and the stored county results stay as they
\* were before the run.
C8_ReadFailureReported ==
    [][county_exc' = "read_file"
          => /\ county_message' =
                    <<"error", "Error processing shapefile", "read_file">>
             /\ cpc' = "idle"
             /\ ss_county_images' = ss_county_images
             /\ ss_county_state_name' = ss_county_state_name
             /\ ss_county_mode_saved' = ss_county_mode_saved]_vars

C8_Witness ==
    /\ county_exc = "read_file"
    /\ shapefile.kind = "corrupt"
    /\ ss_county_images # <<>>

\* the counties drawn in the highlight colour in a stored image
MapLayerOf(bytes) ==
    LET first == bytes.png.layers[1]
    IN  IF first.kind = "map" THEN first ELSE first.image.layers[1]

HighlightedIn(bytes) ==
    LET colors == MapLayerOf(bytes).colors
    IN  {colors[i][1] : i \in {j \in 1..Len(colors) :
                                   colors[j][2] = HighlightColor}}

\* C10: a successful run stores one image per county row of the state, and
\* each row has an image in which it alone is highlighted.
C10_OneImagePerCounty ==
    county_message[1] = "success"
        => /\ Len(ss_county_images) = Len(state_counties)
           /\ \A i \in 1..Len(state_counties) :
                 \E j \in 1..Len(ss_county_images) :
                     HighlightedIn(ss_county_images[j][2])
                         = {state_counties[i].GEOID}


(***************************************************************************)
(* trim-transparent-border.  The pixels of a w x h bitmap are kept row by  *)
(* row: pixel (x, y), counted from 0, is data[y * w + x + 1].              *)
(***************************************************************************)
PixelAt(image, x, y) == image.data[y * image.size[1] + x + 1]

\* the positions of the pixels that are not fully transparent
OpaquePositions(image) ==
    {p \in (0..(image.size[1] - 1)) \X (0..(image.size[2] - 1)) :
        PixelAt(image, p[1], p[2])[4] # 0}

Smallest(S) == CHOOSE n \in S : \A m \in S : n <= m

Largest(S) == CHOOSE n \in S : \A m \in S : n >= m

\* the columns x0..x1 and rows y0..y1 of a bitmap
Crop(image, x0, y0, x1, y1) ==
    LET w == x1 - x0 + 1
        h == y1 - y0 + 1
    IN  [image EXCEPT
            !.size = <<w, h>>,
            !.data = [i \in 1..(w * h) |->
                         PixelAt(image, x0 + ((i - 1) % w), y0 + ((i - 1) \div w))]]

\* as TrimTransparentBorder, but taking the last opaque column and row as
\* the first ones left out
TrimTransparentBorder_DropsLast(image) ==
    LET opaque == OpaquePositions(image)
        xs == {p[1] : p \in opaque}
        ys == {p[2] : p \in opaque}
    IN  IF opaque = {} THEN image
        ELSE Crop(image, Smallest(xs), Smallest(ys),
                  Largest(xs) - 1, Largest(ys) - 1)

\* crop to the bounding box of the non-transparent pixels; a fully
\* transparent bitmap is returned as it is
TrimTransparentBorder(image) ==
    LET opaque == OpaquePositions(image)
        xs == {p[1] : p \in opaque}
        ys == {p[2] : p \in opaque}
    IN  IF opaque = {} THEN image
        ELSE Crop(image, Smallest(xs), Smallest(ys), Largest(xs), Largest(ys))

(***************************************************************************)
(* SpecTrim: trimming, and trimming again, every bitmap of up to           *)
(* MaxTrimPixels pixels that are opaque or transparent.                    *)
(***************************************************************************)
TrimPixels == {<<0, 0, 0, 0>>, <<0, 0, 0, 255>>}

TrimImages ==
    UNION {{Bitmap("RGBA", sz, d) : d \in [1..(sz[1] * sz[2]) -> TrimPixels]}
             : sz \in {s \in (1..MaxTrimPixels) \X (1..MaxTrimPixels) :
                          s[1] * s[2] <= MaxTrimPixels}}

InitTrim ==
    /\ trim_img \in TrimImages
    /\ trim_once = NoImage
    /\ trim_twice = NoImage
    /\ GenParked
    /\ FitParked
    /\ MctParked
    /\ CountyParked
    /\ RemParked

CallTrim ==
    /\ trim_once = NoImage
    /\ trim_once' = TrimTransparentBorder(trim_img)
    /\ UNCHANGED <<trim_img, trim_twice>>
    /\ UNCHANGED notTrimVars

CallTrimAgain ==
    /\ trim_once # NoImage
    /\ trim_twice = NoImage
    /\ trim_twice' = TrimTransparentBorder(trim_once)
    /\ UNCHANGED <<trim_img, trim_once>>
    /\ UNCHANGED notTrimVars

NextTrim ==
    \/ CallTrim
    \/ CallTrimAgain

SpecTrim == InitTrim /\ [][NextTrim]_vars

\* C11: trimming the result of a trim gives that result again, and a fully
\* transparent bitmap comes back from a trim as it went in.
C11_TrimIdempotent ==
    /\ trim_twice # NoImage => trim_twice = trim_once
    /\ (trim_once # NoImage
           /\ \A i \in 1..Len(trim_img.data) : trim_img.data[i][4] = 0)
        => trim_once = trim_img

\* an opaque block of two columns with a transparent margin, trimmed twice
C11_Witness ==
    /\ trim_twice # NoImage
    /\ trim_once.size[1] = 2
    /\ trim_img.size[1] > 2
    /\ trim_img.size[2] > trim_once.size[2]


(***************************************************************************)
(* make_color_transparent, pixel by pixel.                                 *)
(***************************************************************************)
\* C12: a pixel whose RGB distance to the target is strictly below the
\* threshold keeps its red, green and blue and gets alpha 0; any other
\* pixel, one at exactly the threshold included, keeps all four channels.
C12_StrictlyBelowThreshold ==
    (mct_result # NoImage /\ mct_img.mode = "RGBA")
        => /\ Len(mct_result.data) = Len(mct_img.data)
           /\ \A i \in 1..Len(mct_img.data) :
                 LET item == mct_img.data[i]
                     d2 == SquaredDistance(item, mct_target)
                     t2 == mct_threshold * mct_threshold
                 IN  /\ d2 < t2
                        => mct_result.data[i] = <<item[1], item[2], item[3], 0>>
                     /\ d2 >= t2 => mct_result.data[i] = item

\* one opaque pixel at exactly the threshold and one opaque pixel below it
C12_Witness ==
    /\ mct_result # NoImage
    /\ mct_img.mode = "RGBA"
    /\ mct_threshold > 0
    /\ \E i, j \in 1..Len(mct_img.data) :
          /\ mct_img.data[i][4] = 255
          /\ SquaredDistance(mct_img.data[i], mct_target)
                 = mct_threshold * mct_threshold
          /\ mct_result.data[i][4] = 255
          /\ mct_img.data[j][4] = 255
          /\ SquaredDistance(mct_img.data[j], mct_target)
                 < mct_threshold * mct_threshold
          /\ mct_result.data[j][4] = 0


(***************************************************************************)
(* The county map on the template.                                         *)
(***************************************************************************)
\* C13: in Complete Images mode the county map of Alaska is fitted into
\* twice the configured overlay box, that of any other state into the box
\* itself.
C13_AlaskaTwiceTheBox ==
    use_template
        => \A i \in 1..Len(county_images) :
              LET pasted == county_images[i][2].png.layers[1]
              IN  pasted.size =
                      IF selected_state = "AK"
                      THEN FitInto(pasted.image.size,
                                   2 * overlay_max_w, 2 * overlay_max_h)
                      ELSE FitInto(pasted.image.size,
                                   overlay_max_w, overlay_max_h)


(***************************************************************************)
(* tab3: the background remover.                                           *)
(***************************************************************************)
\* the colours picked for removal and the slider positions of a session
BgColors == {White, Black}

BgThresholds == {0, 50}

\* f"processed_{bg_overlay_choice}"
ProcessedName(name) == <<"processed_">> \o name

\* the selectbox of line 125 is changed
SelectBgOverlay(name) ==
    /\ Idle
    /\ name \in DictKeys(overlays_dict)
    /\ bg_overlay_choice' = name
    /\ template' = LoadTemplate
    /\ FreshLocals
    /\ message' = NoMessage
    /\ pc' = "idle"
    /\ UNCHANGED <<batch_input, overlay_files, saved_overlays, preview_img,
                   downloaded, processed_overlay, processed_overlay_name>>
    /\ UNCHANGED notGenRemVars

\* as RemoveBackground, but working on the overlay itself (no .copy()), so
\* that a saved overlay is replaced by its processed version
RemoveBackground_InPlace(bg_color_rgb, threshold) ==
    /\ Idle
    /\ bg_overlay_choice \in DictKeys(overlays_dict)
    /\ LET processed_img ==
               MakeColorTransparent(DictGet(overlays_dict, bg_overlay_choice),
                                    bg_color_rgb, threshold)
       IN  /\ processed_overlay' = processed_img
           /\ saved_overlays' =
                  IF bg_overlay_choice \in DictKeys(saved_overlays)
                  THEN DictSet(saved_overlays, bg_overlay_choice, processed_img)
                  ELSE saved_overlays
    /\ processed_overlay_name' = bg_overlay_choice
    /\ template' = LoadTemplate
    /\ FreshLocals
    /\ message' = NoMessage
    /\ pc' = "idle"
    /\ UNCHANGED <<batch_input, overlay_files, preview_img, downloaded,
                   bg_overlay_choice>>
    /\ UNCHANGED notGenRemVars

\* Remove Background, lines 144-148
RemoveBackground(bg_color_rgb, threshold) ==
    /\ Idle
    /\ bg_overlay_choice \in DictKeys(overlays_dict)
    /\ processed_overlay' =
           MakeColorTransparent(DictGet(overlays_dict, bg_overlay_choice),
                                bg_color_rgb, threshold)
    /\ processed_overlay_name' = bg_overlay_choice
    /\ template' = LoadTemplate
    /\ FreshLocals
    /\ message' = NoMessage
    /\ pc' = "idle"
    /\ UNCHANGED <<batch_input, overlay_files, saved_overlays, preview_img,
                   downloaded, bg_overlay_choice>>
    /\ UNCHANGED notGenRemVars

\* Use This in Generator, lines 187-191; a session saves at most MaxSaved
\* overlays
UseThisInGenerator ==
    /\ Idle
    /\ bg_overlay_choice \in DictKeys(overlays_dict)
    /\ processed_overlay # NoImage
    /\ \/ ProcessedName(bg_overlay_choice) \in DictKeys(saved_overlays)
       \/ Len(saved_overlays) < MaxSaved
    /\ saved_overlays' =
           DictSet(saved_overlays, ProcessedName(bg_overlay_choice),
                   processed_overlay)
    /\ template' = LoadTemplate
    /\ FreshLocals
    /\ message' = <<"success", ProcessedName(bg_overlay_choice)>>
    /\ pc' = "idle"
    /\ UNCHANGED <<batch_input, overlay_files, preview_img, downloaded,
                   bg_overlay_choice, processed_overlay,
                   processed_overlay_name>>
    /\ UNCHANGED notGenRemVars

\* a session with at least one uploaded overlay; the selectbox starts on
\* the first key of overlays_dict
InitRemover ==
    /\ batch_input = <<>>
    /\ overlay_files \in OverlayUploads \ {<<>>}
    /\ GenInit
    /\ bg_overlay_choice = overlay_files[1][1]
    /\ processed_overlay = NoImage
    /\ processed_overlay_name = NoText
    /\ FitParked
    /\ MctParked
    /\ CountyParked
    /\ TrimParked

NextRemover ==
    \/ \E name \in DictKeys(overlays_dict) : SelectBgOverlay(name)
    \/ \E c \in BgColors, t \in BgThresholds : RemoveBackground(c, t)
    \/ UseThisInGenerator

SpecRemover == InitRemover /\ [][NextRemover]_vars

\* C14: an image enters the saved overlays under 'processed_' followed by
\* the name of the overlay it was produced from.
C14_SavedUnderSourceName ==
    [][saved_overlays' # saved_overlays
          => saved_overlays' =
                 DictSet(saved_overlays, ProcessedName(processed_overlay_name),
                         processed_overlay)]_vars

\* C16: a step that changes the processed overlay or its name leaves the
\* uploaded and the saved overlays and the stored preview as they are; no
\* saved overlay is ever removed; and the saved overlays change only by one
\* entry being set to the processed overlay, which that step leaves alone.
C16_RemoveBackgroundAltersNothing ==
    [][/\ (processed_overlay' # processed_overlay
             \/ processed_overlay_name' # processed_overlay_name)
          => /\ saved_overlays' = saved_overlays
             /\ overlay_files' = overlay_files
             /\ overlays_dict' = overlays_dict
             /\ preview_img' = preview_img
       /\ DictKeys(saved_overlays) \subseteq DictKeys(saved_overlays')
       /\ saved_overlays' # saved_overlays
          => /\ processed_overlay # NoImage
             /\ processed_overlay' = processed_overlay
             /\ processed_overlay_name' = processed_overlay_name
             /\ \E k \in DictKeys(saved_overlays') :
                   saved_overlays' = DictSet(saved_overlays, k, processed_overlay)
      ]_vars

\* a saved overlay was processed again and is still as it was saved
C16_Witness ==
    /\ processed_overlay # NoImage
    /\ processed_overlay_name \in DictKeys(saved_overlays)
    /\ processed_overlay # DictGet(saved_overlays, processed_overlay_name)
    /\ \E i \in 1..Len(processed_overlay.data) :
          processed_overlay.data[i]
              # DictGet(saved_overlays, processed_overlay_name).data[i]

\* C15: the three stored county results change only in the step that follows
\* the rendering of the last row, all three together and from the run's own
\* values; a step that reports an error (read failure, no matching county,
\* an iteration raising) leaves all three as they were.
C15_ResultsReplacedOnlyAfterAllRendered ==
    [][/\ (\/ ss_county_images' # ss_county_images
           \/ ss_county_state_name' # ss_county_state_name
           \/ ss_county_mode_saved' # ss_county_mode_saved)
          => /\ cpc = "loop"
             /\ state_counties # <<>>
             /\ cidx = Len(state_counties)
             /\ county_exc = "none"
             /\ ss_county_images' = county_images
             /\ ss_county_state_name' = state_counties[1].STATE_NAME
             /\ ss_county_mode_saved' =
                    IF use_template THEN CompleteImages ELSE MapsOnly
       /\ (county_message' # county_message /\ county_message'[1] = "error")
          => /\ ss_county_images' = ss_county_images
             /\ ss_county_state_name' = ss_county_state_name
             /\ ss_county_mode_saved' = ss_county_mode_saved
      ]_vars

\* a run raised after rendering some county while an earlier run's results,
\* of another state, are stored
C15_Witness ==
    /\ county_exc = "render"
    /\ cidx >= 1
    /\ county_images # <<>>
    /\ ss_county_images # <<>>
    /\ ss_county_state_name # state_counties[1].STATE_NAME
    /\ \A i \in 1..Len(county_images) :
          county_images[i][1] \notin DictKeys(ss_county_images)

=============================================================================
